---- MODULE Spec2Model ----
(***************************************************************************)
(* gen_emoji_lexicon of scribe_data/extract_transform/process_unicode.py   *)
(* as a state machine: one call of the function, from its arguments and    *)
(* the files it reads to the table it returns and the files it rewrites.   *)
(*                                                                         *)
(* A Python str is a sequence of one-character strings, so that lower(),   *)
(* capitalize(), split() and strip() are computed and not assumed.         *)
(* keyword_dict is an insertion-ordered dict whose values are references   *)
(* to lists: items is the sequence of (key, ref) pairs, heap the lists.    *)
(***************************************************************************)
EXTENDS Integers, Sequences, FiniteSets, TLC

VARIABLES
    pc,                  \* the statement the call has reached
    language,            \* argument
    num_emojis,          \* argument (None or an integer)
    emojis_per_keyword,  \* argument (None or an integer)
    ignore_keywords,     \* argument: None, a str or a list of str
    export_base_rank,    \* argument
    update_local_data,   \* argument
    cldr_files,          \* the two annotation files, each a sequence of (char, default phrases)
    noun_data,           \* nouns.json: a sequence of (noun, plural) rows in file order
    data_table,          \* data_table.txt: a sequence of lines
    total_data,          \* total_data.json: a sequence of (language, emoji_keywords)
    emoji_keywords_file, \* emoji_keywords.json as written (NotWritten before)
    keywords_to_ignore,  \* local
    file_idx,            \* position of the loop over cldr_file_paths
    keyword_dict,        \* local: [items, heap]
    total_keywords,      \* local
    raised               \* the exception that ended the call, or NoError

vars == <<pc, language, num_emojis, emojis_per_keyword, ignore_keywords,
          export_base_rank, update_local_data, cldr_files, noun_data,
          data_table, total_data, emoji_keywords_file, keywords_to_ignore,
          file_idx, keyword_dict, total_keywords, raised>>

inputs == <<language, num_emojis, emojis_per_keyword, ignore_keywords,
            export_base_rank, update_local_data, cldr_files, noun_data>>

-----------------------------------------------------------------------------
(* Bounds of the model. *)

\* Largest value of num_emojis tried (ranks of the popularity table are 1..2).
MaxNumEmojis == 2
\* Largest value of emojis_per_keyword tried.
MaxPerKeyword == 2
\* Most characters annotated with one keyword in the first annotation file.
MaxCldrChars == 3
\* Most rows of nouns.json.
MaxNouns == 3
\* Most lines of data_table.txt.
MaxLines == 2

-----------------------------------------------------------------------------
(* Python values. *)

\* None where an integer may stand (popularity_dict.get, the default arguments).
None == -1

NoError == "NoError"
NotWritten == <<"NotWritten">>

\* bool(x) of an optional integer: None and 0 are falsy.
Truthy(x) == x # None /\ x # 0

Min(a, b) == IF a < b THEN a ELSE b

-----------------------------------------------------------------------------
(* str methods. *)

CasePairs ==
    { <<"A", "a">>, <<"B", "b">>, <<"C", "c">>, <<"E", "e">>, <<"N", "n">>,
      <<"P", "p">> }

LowerChar(c) ==
    IF \E p \in CasePairs : p[1] = c
    THEN (CHOOSE p \in CasePairs : p[1] = c)[2]
    ELSE c

UpperChar(c) ==
    IF \E p \in CasePairs : p[2] = c
    THEN (CHOOSE p \in CasePairs : p[2] = c)[1]
    ELSE c

Whitespace == {" ", "\n"}

\* str.lower()
Lower(s) == [i \in 1..Len(s) |-> LowerChar(s[i])]

\* str.capitalize(): the first character upper-cased, the rest lower-cased.
Capitalize(s) ==
    [i \in 1..Len(s) |-> IF i = 1 THEN UpperChar(s[i]) ELSE LowerChar(s[i])]

\* len(s.split()): the number of maximal runs of non-whitespace characters.
SplitLen(s) ==
    Cardinality({ i \in 1..Len(s) :
                    /\ s[i] \notin Whitespace
                    /\ (i = 1 \/ s[i - 1] \in Whitespace) })

\* str.strip(): leading and trailing whitespace removed.
Strip(s) ==
    LET ink == { i \in 1..Len(s) : s[i] \notin Whitespace }
    IN  IF ink = {} THEN <<>>
        ELSE LET lo == CHOOSE i \in ink : \A j \in ink : i <= j
                 hi == CHOOSE i \in ink : \A j \in ink : j <= i
             IN  SubSeq(s, lo, hi)

Digits == <<"0", "1", "2", "3", "4", "5", "6", "7", "8", "9">>

\* str(n) for n >= 0 (add_num_commas adds no comma below 1000).
RECURSIVE NumStr(_)
NumStr(n) ==
    IF n < 10 THEN <<Digits[n + 1]>>
    ELSE Append(NumStr(n \div 10), Digits[(n % 10) + 1])

\* s.rjust(width, " ")
RECURSIVE Rjust(_, _)
Rjust(s, width) == IF Len(s) >= width THEN s ELSE Rjust(<<" ">> \o s, width)

\* len(" Emoji Keywords") - 1
EmojiKeywordsWidth == 14

-----------------------------------------------------------------------------
(* The data the module reads besides its arguments: the emoji package's    *)
(* EMOJI_DATA, ICU's character properties, get_emoji_codes_to_ignore() and *)
(* the bundled 2021_ranked.tsv.  One character of each kind the filters    *)
(* tell apart.                                                             *)

CldrChars == {"e1", "e2", "e3", "e4", "m1", "m2", "nq", "ig", "tx"}

\* emoji.EMOJI_DATA: "tx" is annotated text that is no emoji.
EMOJI_DATA == CldrChars \ {"tx"}

\* emoji.EMOJI_DATA[c]["status"] == emoji.STATUS["fully_qualified"]
FullyQualified == EMOJI_DATA \ {"nq"}

\* emoji_codes_to_ignore, as the characters whose encoding it holds.
emoji_codes_to_ignore == {"ig"}

\* Char.hasBinaryProperty(c, UProperty.EMOJI_MODIFIER_BASE)
ModifierBase == {"m1", "m2"}

\* len(c): "m2" is a modifier base with a modifier attached.
CharLen(c) == IF c = "m2" THEN 2 ELSE 1

\* popularity_dict: "e4", "m1" and "tx" are not in the table; "e2", "e3" tie.
popularity_dict ==
    [c \in {"e1", "e2", "e3", "m2", "nq", "ig"} |->
        CASE c = "e1" -> 1
          [] c = "e2" -> 2
          [] c = "e3" -> 2
          [] c = "m2" -> 1
          [] c = "nq" -> 1
          [] c = "ig" -> 1]

\* popularity_dict.get(c)
PopularityGet(c) ==
    IF c \in DOMAIN popularity_dict THEN popularity_dict[c] ELSE None

-----------------------------------------------------------------------------
(* dict and list operations on keyword_dict. *)

EmptyDict == [items |-> <<>>, heap |-> <<>>]

Keys(kd) == { kd.items[i].key : i \in 1..Len(kd.items) }

\* k in kd
HasKey(kd, k) == k \in Keys(kd)

IndexOf(kd, k) == CHOOSE i \in 1..Len(kd.items) : kd.items[i].key = k

\* the list object kd[k] refers to
RefOf(kd, k) == kd.items[IndexOf(kd, k)].ref

\* kd[k]
Get(kd, k) == kd.heap[RefOf(kd, k)]

\* kd.setdefault(k, []).append(e)
SetDefaultAppend(kd, k, e) ==
    IF HasKey(kd, k)
    THEN [kd EXCEPT !.heap[RefOf(kd, k)] = Append(@, e)]
    ELSE [items |-> Append(kd.items, [key |-> k, ref |-> Len(kd.heap) + 1]),
          heap  |-> Append(kd.heap, <<e>>)]

\* kd[k] = kd[from]: k refers to the same list object as from; a new key
\* goes to the end, a key already present keeps its place.
SetAlias(kd, k, from) ==
    IF HasKey(kd, k)
    THEN [kd EXCEPT !.items[IndexOf(kd, k)].ref = RefOf(kd, from)]
    ELSE [kd EXCEPT !.items = Append(@, [key |-> k, ref |-> RefOf(kd, from)])]

-----------------------------------------------------------------------------
(* Lines 78-85: ignore_keywords normalised to a list of lower-cased str. *)

KeywordsToIgnore(arg) ==
    LET given == CASE arg.kind = "str"  -> <<arg.val>>
                   [] arg.kind = "list" -> arg.val
                   [] OTHER             -> <<>>
    IN  [i \in 1..Len(given) |-> Lower(given[i])]

InSeq(x, s) == \E i \in 1..Len(s) : s[i] = x

-----------------------------------------------------------------------------
(* Lines 115-174: one annotated character of one CLDR file. *)

\* Lines 161-174: the loop over emoji_annotations["default"].
RECURSIVE AddKeywords(_, _, _, _)
AddKeywords(kd, entry, phrases, ignore) ==
    IF phrases = <<>> THEN kd
    ELSE LET emoji_keyword == Lower(Head(phrases))
             next == IF /\ SplitLen(emoji_keyword) = 1
                        /\ ~InSeq(emoji_keyword, ignore)
                     THEN SetDefaultAppend(kd, emoji_keyword, entry)
                     ELSE kd
         IN  AddKeywords(next, entry, Tail(phrases), ignore)

\* PassesRankFilter with the cap applied to ranked emoji only.
PassesRankFilterRankedOnly(cldr_char, n) ==
    LET emoji_rank == PopularityGet(cldr_char)
    IN  ~(Truthy(n) /\ emoji_rank # None /\ emoji_rank > n)

\* Lines 126-130: the rank cap, which an emoji without rank fails.
PassesRankFilter(cldr_char, n) ==
    LET emoji_rank == PopularityGet(cldr_char)
    IN  ~(Truthy(n) /\ (emoji_rank = None \/ emoji_rank > n))

\* IsVariant without the test of the length.
IsVariantAnyLength(cldr_char) == cldr_char \in ModifierBase

\* Lines 133-137: a modifier base of more than one code point is skipped.
IsVariant(cldr_char) ==
    cldr_char \in ModifierBase /\ CharLen(cldr_char) > 1

ScanChar(kd, row, n, ignore) ==
    LET cldr_char == row.char
    IN  IF /\ cldr_char \in EMOJI_DATA
           /\ cldr_char \notin emoji_codes_to_ignore
           /\ PassesRankFilter(cldr_char, n)
           /\ ~IsVariant(cldr_char)
           /\ cldr_char \in FullyQualified
        THEN AddKeywords(kd,
                         [emoji   |-> cldr_char,
                          is_base |-> cldr_char \in ModifierBase,
                          rank    |-> PopularityGet(cldr_char)],
                         row.default, ignore)
        ELSE kd

\* Lines 115-174: the loop over the characters of one file.
RECURSIVE ScanFile(_, _, _, _)
ScanFile(kd, cldr_dict, n, ignore) ==
    IF cldr_dict = <<>> THEN kd
    ELSE ScanFile(ScanChar(kd, Head(cldr_dict), n, ignore),
                  Tail(cldr_dict), n, ignore)

-----------------------------------------------------------------------------
(* Lines 176-188: plurals linked to the lists of their singulars. *)

isPlural == <<"i", "s", "P", "l", "u", "r", "a", "l">>

\* d[k] = v on an insertion-ordered dict held as a sequence of (plural,
\* singular): a key already present keeps its place and takes the new value.
DictPut(d, k, v) ==
    IF \E i \in 1..Len(d) : d[i].plural = k
    THEN [i \in 1..Len(d) |->
            IF d[i].plural = k THEN [plural |-> k, singular |-> v] ELSE d[i]]
    ELSE Append(d, [plural |-> k, singular |-> v])

\* Lines 180-184: the dict comprehension over the rows of noun_data.
RECURSIVE PluralsToSingulars(_, _)
PluralsToSingulars(d, rows) ==
    IF rows = <<>> THEN d
    ELSE LET row == Head(rows)
             next == IF row.plural # isPlural
                     THEN DictPut(d, Lower(row.plural), Lower(row.noun))
                     ELSE d
         IN  PluralsToSingulars(next, Tail(rows))

\* ShouldLink without the test that the plural is absent.
ShouldLinkPresentToo(kd, plural, singular) == HasKey(kd, singular)

\* Line 187: the condition under which a plural is linked.
ShouldLink(kd, plural, singular) ==
    ~HasKey(kd, plural) /\ HasKey(kd, singular)

\* Lines 186-188: the loop over plurals_to_singulars_dict.items().
RECURSIVE LinkLoop(_, _)
LinkLoop(kd, d) ==
    IF d = <<>> THEN kd
    ELSE LET plural == Head(d).plural
             singular == Head(d).singular
             next == IF ShouldLink(kd, plural, singular)
                     THEN SetAlias(kd, plural, singular)
                     ELSE kd
         IN  LinkLoop(next, Tail(d))

LinkPlurals(kd, rows) == LinkLoop(kd, PluralsToSingulars(<<>>, rows))

-----------------------------------------------------------------------------
(* Lines 190-200: each list sorted by rank and cut to emojis_per_keyword. *)

\* RankBefore comparing the ranks as they are, None not made infinite.
RankBeforeNoneFirst(a, b) == a.rank < b.rank

\* Lines 193-195, as the order of the keys: float("inf") for a rank of None
\* is above every integer and not below itself.
RankBefore(a, b) ==
    IF a.rank = None THEN FALSE
    ELSE IF b.rank = None THEN TRUE
    ELSE a.rank < b.rank

\* list.sort is stable: an entry goes before the first one whose key is
\* strictly greater, behind every entry of equal key.
RECURSIVE InsertByRank(_, _)
InsertByRank(sorted, e) ==
    IF sorted = <<>> THEN <<e>>
    ELSE IF RankBefore(e, Head(sorted)) THEN <<e>> \o sorted
    ELSE <<Head(sorted)>> \o InsertByRank(Tail(sorted), e)

RECURSIVE SortFrom(_, _)
SortFrom(sorted, rest) ==
    IF rest = <<>> THEN sorted
    ELSE SortFrom(InsertByRank(sorted, Head(rest)), Tail(rest))

\* Lines 192-196
SortByRank(emojis) == SortFrom(<<>>, emojis)

\* Truncate keeping the end of the list.
TruncateKeepingLast(emojis, k) ==
    IF Truthy(k) /\ Len(emojis) > k
    THEN SubSeq(emojis, Len(emojis) - k + 1, Len(emojis))
    ELSE emojis

\* Lines 199-200
Truncate(emojis, k) ==
    IF Truthy(k) /\ Len(emojis) > k THEN SubSeq(emojis, 1, k) ELSE emojis

\* Lines 191-200: the loop over keyword_dict.values(); a list two keys refer
\* to is visited once for each.
RECURSIVE SortLoop(_, _, _)
SortLoop(kd, i, k) ==
    IF i > Len(kd.items) THEN kd
    ELSE SortLoop([kd EXCEPT !.heap[kd.items[i].ref] = Truncate(SortByRank(@), k)],
                  i + 1, k)

SortAndTruncate(kd, k) == SortLoop(kd, 1, k)

-----------------------------------------------------------------------------
(* Lines 209-214: base status and rank removed; every key gets a new list. *)

StripEntry(e) == [emoji |-> e.emoji]

StripBaseRank(kd) ==
    [items |-> [i \in 1..Len(kd.items) |-> [key |-> kd.items[i].key, ref |-> i]],
     heap  |-> [i \in 1..Len(kd.items) |->
                  [j \in 1..Len(kd.heap[kd.items[i].ref]) |->
                      StripEntry(kd.heap[kd.items[i].ref][j])]]]

\* json.dump(keyword_dict): the keys in order, each with the value of its list.
JsonOf(kd) ==
    [i \in 1..Len(kd.items) |->
        [key |-> kd.items[i].key, value |-> kd.heap[kd.items[i].ref]]]

-----------------------------------------------------------------------------
(* Lines 234-243: the row of the language in data_table.txt rewritten. *)

\* line.split("|")
RECURSIVE SplitPipe(_, _, _)
SplitPipe(line, i, field) ==
    IF i > Len(line) THEN <<field>>
    ELSE IF line[i] = "|" THEN <<field>> \o SplitPipe(line, i + 1, <<>>)
    ELSE SplitPipe(line, i + 1, Append(field, line[i]))

Split(line) == SplitPipe(line, 1, <<>>)

\* "|".join(fields)
RECURSIVE Join(_)
Join(fields) ==
    IF fields = <<>> THEN <<>>
    ELSE IF Len(fields) = 1 THEN fields[1]
    ELSE fields[1] \o <<"|">> \o Join(Tail(fields))

\* fields[:-2]
DropLastTwo(fields) ==
    IF Len(fields) <= 2 THEN <<>> ELSE SubSeq(fields, 1, Len(fields) - 2)

\* Line 235: raises IndexError when the line holds no "|".
LineRaises(line) == Len(Split(line)) < 2

\* IsLanguageRow comparing without regard to case.
IsLanguageRowAnyCase(line, lang) == Lower(Strip(Split(line)[2])) = Lower(lang)

\* Line 235
IsLanguageRow(line, lang) == Strip(Split(line)[2]) = Capitalize(lang)

\* Lines 236-241
RewriteLine(line, total) ==
    Join(DropLastTwo(Split(line))) \o <<"|">>
        \o Rjust(total, EmojiKeywordsWidth) \o <<" ", "|", "\n">>

\* Lines 234-243 on the lines from position i on: the lines printed, which
\* end before the first line that raises.
RECURSIVE RewriteFrom(_, _, _, _)
RewriteFrom(lines, i, lang, total) ==
    IF i > Len(lines) \/ LineRaises(lines[i]) THEN <<>>
    ELSE <<IF IsLanguageRow(lines[i], lang)
           THEN RewriteLine(lines[i], total)
           ELSE lines[i]>> \o RewriteFrom(lines, i + 1, lang, total)

RewriteTable(lines, lang, total) == RewriteFrom(lines, 1, lang, total)

TableRaises(lines) == \E i \in 1..Len(lines) : LineRaises(lines[i])

-----------------------------------------------------------------------------
(* Lines 250-255: the count of the language in total_data.json. *)

HasLanguage(data, lang) == \E i \in 1..Len(data) : data[i].language = lang

SetEmojiKeywords(data, lang, n) ==
    [i \in 1..Len(data) |->
        IF data[i].language = lang
        THEN [data[i] EXCEPT !.emoji_keywords = n]
        ELSE data[i]]

-----------------------------------------------------------------------------
(* The inputs of a call. *)

wA == <<"a">>
wAup == <<"A">>
wB == <<"b">>
wBup == <<"B">>
wC == <<"c">>
wCup == <<"C">>
wAB == <<"a", " ", "b">>

Row(c, phrases) == [char |-> c, default |-> phrases]

\* An annotation file is a JSON object: no character twice.
CldrFilesOver(chars, lists, n) ==
    { f \in UNION { [1..m -> { Row(c, l) : c \in chars, l \in lists }] : m \in 0..n } :
        \A i, j \in 1..Len(f) : i < j => f[i].char # f[j].char }

Noun(s, p) == [noun |-> s, plural |-> p]

\* nouns.json is a JSON object: no noun twice.
NounDataOver(nouns, plurals, n) ==
    { f \in UNION { [1..m -> { Noun(s, p) : s \in nouns, p \in plurals }] : m \in 0..n } :
        \A i, j \in 1..Len(f) : i < j => f[i].noun # f[j].noun }

NoIgnore == [kind |-> "none", val |-> <<>>]
IgnoreStr(w) == [kind |-> "str", val |-> w]
IgnoreList(ws) == [kind |-> "list", val |-> ws]

English == <<"E", "n">>
english == <<"e", "n">>
German == <<"D", "e">>

\* Lines of data_table.txt.
lineHeader == <<"|", " ", "L", " ", "|", " ", "N", " ", "|", " ", "K", " ", "|", "\n">>
lineEnglish == <<"|", " ", "E", "n", " ", "|", " ", "7", " ", "|", " ", "5", " ", "|", "\n">>
lineGerman == <<"|", " ", "D", "e", " ", "|", " ", "7", " ", "|", " ", "5", " ", "|", "\n">>
lineLower == <<"|", " ", "e", "n", " ", "|", " ", "7", " ", "|", " ", "5", " ", "|", "\n">>
lineRule == <<"-", "-", "\n">>

TableLines == {lineHeader, lineEnglish, lineGerman, lineLower, lineRule}

\* data_table.txt holds at least its header line.
DataTables == UNION { [1..m -> TableLines] : m \in 1..MaxLines }

DefaultTable == <<lineHeader, lineEnglish>>

Total(lang, n) == [language |-> lang, emoji_keywords |-> n]

TotalDatas == { <<>>, <<Total(English, 0)>>, <<Total(German, 3)>>,
                <<Total(German, 3), Total(English, 0)>> }

DefaultTotal == <<Total(German, 3), Total(English, 0)>>

-----------------------------------------------------------------------------
(* The calls checked.  Each family varies the inputs one part of the       *)
(* function reads and fixes the others.                                    *)

ScanPhraseLists == { <<wA>>, <<wAup, wB>>, <<wAB, wB>>, <<wA, wAup>> }

\* Any character, in either file, under every rank cap and ignore list.
ScanCalls ==
    /\ cldr_files \in CldrFilesOver(CldrChars, ScanPhraseLists, 1)
                      \X CldrFilesOver(CldrChars, ScanPhraseLists, 1)
    /\ num_emojis \in {None} \cup 0..MaxNumEmojis
    /\ ignore_keywords \in {NoIgnore, IgnoreStr(wAup), IgnoreList(<<wB, wA>>)}
    /\ emojis_per_keyword = None
    /\ export_base_rank = TRUE
    /\ noun_data = <<>>
    /\ update_local_data = FALSE
    /\ language = English
    /\ data_table = DefaultTable
    /\ total_data = DefaultTotal

SortChars == {"e1", "e2", "e3", "e4", "m1"}

\* Several emoji under one keyword, in every scan order, under every cap on
\* ranks or on the length of a list.
SortCalls ==
    /\ cldr_files \in CldrFilesOver(SortChars, {<<wA>>}, MaxCldrChars)
                      \X CldrFilesOver({"e1", "e4"}, {<<wA>>}, 1)
    /\ num_emojis \in {None} \cup 0..MaxNumEmojis
    /\ ignore_keywords = NoIgnore
    /\ emojis_per_keyword \in {None} \cup 0..MaxPerKeyword
    /\ num_emojis = None \/ emojis_per_keyword = None
    /\ export_base_rank \in BOOLEAN
    /\ noun_data \in {<<>>, <<Noun(wA, wB)>>}
    /\ update_local_data = FALSE
    /\ language = English
    /\ data_table = DefaultTable
    /\ total_data = DefaultTotal

LinkCldrFiles ==
    { << <<Row("e1", <<wA>>)>>, <<>> >>,
      << <<Row("e1", <<wA>>), Row("e2", <<wB>>)>>, <<>> >>,
      << <<Row("e1", <<wA>>), Row("e4", <<wA, wC>>)>>, <<Row("e2", <<wB>>)>> >> }

NounWords == {wA, wBup, wC}
PluralWords == {wB, wBup, wCup, wAB, isPlural}

\* Every noun file over a few words, against tables holding some of them.
LinkCalls ==
    /\ cldr_files \in LinkCldrFiles
    /\ num_emojis = None
    /\ ignore_keywords \in {NoIgnore, IgnoreStr(wBup)}
    /\ emojis_per_keyword \in {None, 1}
    /\ export_base_rank \in BOOLEAN
    /\ noun_data \in NounDataOver(NounWords, PluralWords, MaxNouns)
    /\ update_local_data = FALSE
    /\ language = English
    /\ data_table = DefaultTable
    /\ total_data = DefaultTotal

\* The summary files in every shape, with update_local_data set.
UpdateCalls ==
    /\ cldr_files \in { << <<Row("e1", <<wA>>)>>, <<>> >>,
                        << <<Row("e1", <<wA>>), Row("e2", <<wB>>)>>, <<>> >> }
    /\ num_emojis = None
    /\ ignore_keywords = NoIgnore
    /\ emojis_per_keyword = None
    /\ export_base_rank \in BOOLEAN
    /\ noun_data = <<>>
    /\ update_local_data = TRUE
    /\ language \in {English, english}
    /\ data_table \in DataTables
    /\ total_data \in TotalDatas

Init ==
    /\ pc = "start"
    /\ ScanCalls \/ SortCalls \/ LinkCalls \/ UpdateCalls
    /\ emoji_keywords_file = NotWritten
    /\ keywords_to_ignore = <<>>
    /\ file_idx = 1
    /\ keyword_dict = EmptyDict
    /\ total_keywords = <<>>
    /\ raised = NoError

-----------------------------------------------------------------------------
(* The steps of the call. *)

\* Lines 74-85
NormalizeIgnore ==
    /\ pc = "start"
    /\ keywords_to_ignore' = KeywordsToIgnore(ignore_keywords)
    /\ keyword_dict' = EmptyDict
    /\ file_idx' = 1
    /\ pc' = "scan"
    /\ UNCHANGED <<inputs, data_table, total_data, emoji_keywords_file,
                   total_keywords, raised>>

\* Lines 109-174: one pass of the loop over cldr_file_paths.
ScanCldrFile ==
    /\ pc = "scan"
    /\ keyword_dict' = ScanFile(keyword_dict, cldr_files[file_idx], num_emojis,
                                keywords_to_ignore)
    /\ file_idx' = file_idx + 1
    /\ pc' = IF file_idx = Len(cldr_files) THEN "link" ELSE "scan"
    /\ UNCHANGED <<inputs, data_table, total_data, emoji_keywords_file,
                   keywords_to_ignore, total_keywords, raised>>

\* Lines 176-188
LinkNounPlurals ==
    /\ pc = "link"
    /\ keyword_dict' = LinkPlurals(keyword_dict, noun_data)
    /\ pc' = "sort"
    /\ UNCHANGED <<inputs, data_table, total_data, emoji_keywords_file,
                   keywords_to_ignore, file_idx, total_keywords, raised>>

\* Lines 190-200
SortEmojis ==
    /\ pc = "sort"
    /\ keyword_dict' = SortAndTruncate(keyword_dict, emojis_per_keyword)
    /\ pc' = "shape"
    /\ UNCHANGED <<inputs, data_table, total_data, emoji_keywords_file,
                   keywords_to_ignore, file_idx, total_keywords, raised>>

\* Lines 202-216; without update_local_data the call returns keyword_dict.
ShapeOutput ==
    /\ pc = "shape"
    /\ total_keywords' = NumStr(Len(keyword_dict.items))
    /\ keyword_dict' = IF export_base_rank THEN keyword_dict
                       ELSE StripBaseRank(keyword_dict)
    /\ pc' = IF update_local_data THEN "write" ELSE "done"
    /\ UNCHANGED <<inputs, data_table, total_data, emoji_keywords_file,
                   keywords_to_ignore, file_idx, raised>>

\* Lines 217-227
WriteKeywords ==
    /\ pc = "write"
    /\ emoji_keywords_file' = JsonOf(keyword_dict)
    /\ pc' = "table"
    /\ UNCHANGED <<inputs, data_table, total_data, keywords_to_ignore,
                   file_idx, keyword_dict, total_keywords, raised>>

\* Lines 229-243: under inplace=True the file holds what was printed.  When
\* a line raises, fileinput is left open and the file holds as much of the
\* printed lines as was flushed.
RewriteDataTable ==
    /\ pc = "table"
    /\ LET printed == RewriteTable(data_table, language, total_keywords)
       IN  IF TableRaises(data_table)
           THEN /\ \E m \in 0..Len(printed) : data_table' = SubSeq(printed, 1, m)
                /\ pc' = "raised"
                /\ raised' = "IndexError"
           ELSE /\ data_table' = printed
                /\ pc' = "total"
                /\ raised' = raised
    /\ UNCHANGED <<inputs, total_data, emoji_keywords_file, keywords_to_ignore,
                   file_idx, keyword_dict, total_keywords>>

\* Lines 245-257
UpdateTotalData ==
    /\ pc = "total"
    /\ IF HasLanguage(total_data, Capitalize(language))
       THEN /\ total_data' = SetEmojiKeywords(total_data, Capitalize(language),
                                              Len(keyword_dict.items))
            /\ pc' = "done"
            /\ raised' = raised
       ELSE /\ total_data' = total_data
            /\ pc' = "raised"
            /\ raised' = "KeyError"
    /\ UNCHANGED <<inputs, data_table, emoji_keywords_file, keywords_to_ignore,
                   file_idx, keyword_dict, total_keywords>>

Next ==
    \/ NormalizeIgnore
    \/ ScanCldrFile
    \/ LinkNounPlurals
    \/ SortEmojis
    \/ ShapeOutput
    \/ WriteKeywords
    \/ RewriteDataTable
    \/ UpdateTotalData

Spec == Init /\ [][Next]_vars

-----------------------------------------------------------------------------
(* What the claims speak of. *)

\* The call has returned keyword_dict.
Returned == pc = "done"

\* The words given as ignore_keywords.
GivenIgnore ==
    CASE ignore_keywords.kind = "str"  -> {ignore_keywords.val}
      [] ignore_keywords.kind = "list" ->
            { ignore_keywords.val[i] : i \in 1..Len(ignore_keywords.val) }
      [] OTHER -> {}

\* The table built from the annotation data alone.
TableFromAnnotations ==
    ScanFile(ScanFile(EmptyDict, cldr_files[1], num_emojis,
                      KeywordsToIgnore(ignore_keywords)),
             cldr_files[2], num_emojis, KeywordsToIgnore(ignore_keywords))

\* The table after plural linking, before the sort.
TableBeforeSort == LinkPlurals(TableFromAnnotations, noun_data)

AfterLink == {"sort", "shape", "write", "table", "total", "done", "raised"}
AfterSort == {"shape", "write", "table", "total", "done", "raised"}

\* The emoji of a list, which an entry keeps whatever export_base_rank is.
EmojisOf(list) == [i \in 1..Len(list) |-> list[i].emoji]

\* Non-empty and free of whitespace once leading and trailing whitespace is
\* set aside.
IsSingleWord(k) ==
    /\ Strip(k) # <<>>
    /\ \A i \in 1..Len(Strip(k)) : Strip(k)[i] \notin Whitespace

IsLowercase(k) == \A i \in 1..Len(k) : \A p \in CasePairs : k[i] # p[1]

RowsLinked == { i \in 1..Len(noun_data) : noun_data[i].plural # isPlural }

-----------------------------------------------------------------------------
\* C1: for ignore_keywords given as a string w or a list containing w, the
\* returned table has no key equal to lowercase(w), whatever the annotation
\* and noun data hold.
C1_IgnoredWordIsNoKey ==
    Returned => \A w \in GivenIgnore : ~HasKey(keyword_dict, Lower(w))

\* C2: for every noun row (s, p) whose plural is not "isPlural", if
\* lowercase(s) is a key of the table built from the annotation data and
\* lowercase(p) is not, the returned table maps lowercase(p) to the same list
\* as lowercase(s).
C2_EveryRowLinked ==
    Returned =>
        \A i \in RowsLinked :
            LET s == Lower(noun_data[i].noun)
                p == Lower(noun_data[i].plural)
            IN  (HasKey(TableFromAnnotations, s) /\ ~HasKey(TableFromAnnotations, p))
                => /\ HasKey(keyword_dict, p)
                   /\ Get(keyword_dict, p) = Get(keyword_dict, s)

\* C3: plural linking overwrites no entry and creates none without a present
\* singular.  Right after linking every key of the annotation table has
\* exactly the entries the annotation data gave it, and in the returned table
\* the entries it has are as many of those as the cap allows; every other key,
\* from linking on, is the plural of a noun row whose singular is a key with
\* the same list.
C3_LinkOnlyFillsGaps ==
    LET annotated == TableFromAnnotations
    IN  /\ pc = "sort" =>
              \A k \in Keys(annotated) :
                  /\ HasKey(keyword_dict, k)
                  /\ Get(keyword_dict, k) = Get(annotated, k)
        /\ Returned =>
              \A k \in Keys(annotated) :
                  /\ HasKey(keyword_dict, k)
                  /\ Len(Get(keyword_dict, k)) =
                        IF Truthy(emojis_per_keyword)
                        THEN Min(emojis_per_keyword, Len(Get(annotated, k)))
                        ELSE Len(Get(annotated, k))
                  /\ \A j \in 1..Len(Get(keyword_dict, k)) :
                        \E m \in 1..Len(Get(annotated, k)) :
                            Get(keyword_dict, k)[j].emoji = Get(annotated, k)[m].emoji
        /\ pc \in AfterLink =>
              \A k \in Keys(keyword_dict) \ Keys(annotated) :
                  \E i \in RowsLinked :
                      /\ Lower(noun_data[i].plural) = k
                      /\ HasKey(keyword_dict, Lower(noun_data[i].noun))
                      /\ Get(keyword_dict, Lower(noun_data[i].noun))
                            = Get(keyword_dict, k)

\* C3's case: a returned table with a linked plural, from noun data that also
\* names as a plural a key the annotation data produced, its singular present
\* with other entries.
C3_Witness ==
    /\ Returned
    /\ Keys(keyword_dict) \ Keys(TableFromAnnotations) # {}
    /\ \E i \in RowsLinked :
          /\ HasKey(TableFromAnnotations, Lower(noun_data[i].plural))
          /\ HasKey(TableFromAnnotations, Lower(noun_data[i].noun))
          /\ Get(TableFromAnnotations, Lower(noun_data[i].plural))
                # Get(TableFromAnnotations, Lower(noun_data[i].noun))

\* C9: every key of the returned table is a lowercase single-word string,
\* whether it came from an annotation phrase or from plural linking.
C9_KeysLowercaseSingleWord ==
    Returned => \A k \in Keys(keyword_dict) : IsLowercase(k) /\ IsSingleWord(k)

\* The noun rows in the order f puts them.
Reordered(f) == [i \in 1..Len(noun_data) |-> noun_data[f[i]]]

\* A table as its keys and the list each maps to.
Mapping(kd) == [k \in Keys(kd) |-> Get(kd, k)]

\* C10: the table plural linking produces is the same for every order of the
\* noun rows.
C10_LinkOrderIndependent ==
    pc = "sort" =>
        \A f \in Permutations(1..Len(noun_data)) :
            Mapping(LinkPlurals(TableFromAnnotations, Reordered(f)))
                = Mapping(keyword_dict)

-----------------------------------------------------------------------------
(* Rank order, stated on positions and not by sorting. *)

\* Rank r is strictly better than rank q; an absent rank is worse than any.
Better(r, q) == r # None /\ (q = None \/ r < q)

\* Where entry i of list goes when the list is put in rank order with ties
\* kept in their order.
StablePlace(list, i) ==
    1 + Cardinality({ j \in 1..Len(list) :
                        \/ Better(list[j].rank, list[i].rank)
                        \/ (list[j].rank = list[i].rank /\ j < i) })

StablyRanked(list) ==
    [p \in 1..Len(list) |->
        list[CHOOSE i \in 1..Len(list) : StablePlace(list, i) = p]]

\* s is the start of t
IsPrefix(s, t) == Len(s) <= Len(t) /\ s = SubSeq(t, 1, Len(s))

WithRank(list, r) == SelectSeq(list, LAMBDA e : e.rank = r)

RanksIn(list) == { list[i].rank : i \in 1..Len(list) }

-----------------------------------------------------------------------------
\* C4: with emojis_per_keyword = k set, every list of the table, from the sort
\* on and as returned, has at most k entries, and they are the first
\* min(k, length) entries of the untruncated list in rank order with ties in
\* scan order; a list shared by a singular and its plural included.
C4_KeepsKBestInScanOrder ==
    (pc \in AfterSort /\ Truthy(emojis_per_keyword)) =>
        LET untruncated == TableBeforeSort
        IN  /\ Keys(keyword_dict) = Keys(untruncated)
            /\ \A key \in Keys(keyword_dict) :
                  LET before == Get(untruncated, key)
                      kept == Min(emojis_per_keyword, Len(before))
                  IN  /\ Len(Get(keyword_dict, key)) <= emojis_per_keyword
                      /\ EmojisOf(Get(keyword_dict, key))
                            = EmojisOf(SubSeq(StablyRanked(before), 1, kept))

\* C4's case: a returned table under a cap, with a list that was longer than
\* the cap, out of rank order, and shared by two keys.
C4_Witness ==
    /\ Returned
    /\ Truthy(emojis_per_keyword)
    /\ \E key \in Keys(TableBeforeSort) :
          LET before == Get(TableBeforeSort, key)
          IN  /\ Len(before) > emojis_per_keyword
              /\ before # StablyRanked(before)
              /\ EmojisOf(SubSeq(before, 1, emojis_per_keyword))
                    # EmojisOf(Get(keyword_dict, key))
              /\ \E other \in Keys(TableBeforeSort) :
                    /\ other # key
                    /\ RefOf(TableBeforeSort, other) = RefOf(TableBeforeSort, key)

\* C5: after the sort step every list is in non-decreasing rank order with
\* every unranked entry behind every ranked one, and the entries of one rank
\* (or without rank) are in the order the scan put them.
C5_SortedRankedFirstStable ==
    pc = "shape" =>
        LET unsorted == TableBeforeSort
        IN
        \A key \in Keys(keyword_dict) :
            LET list == Get(keyword_dict, key)
                before == Get(unsorted, key)
            IN  /\ \A i, j \in 1..Len(list) :
                      i < j =>
                          /\ list[i].rank = None => list[j].rank = None
                          /\ (list[i].rank # None /\ list[j].rank # None)
                                => list[i].rank <= list[j].rank
                /\ \A r \in RanksIn(before) :
                      /\ IsPrefix(WithRank(list, r), WithRank(before, r))
                      /\ ~Truthy(emojis_per_keyword)
                            => WithRank(list, r) = WithRank(before, r)

\* C5's case: a sorted list holding a ranked entry, two unranked entries of
\* different emoji and two different emoji of one rank, scanned in another
\* order.
C5_Witness ==
    /\ pc = "shape"
    /\ \E key \in Keys(keyword_dict) :
          LET list == Get(keyword_dict, key)
          IN  /\ list # Get(TableBeforeSort, key)
              /\ \E i, j \in 1..Len(list) :
                    /\ list[i].rank = None /\ list[j].rank = None
                    /\ list[i].emoji # list[j].emoji
              /\ \E i \in 1..Len(list) : list[i].rank # None
    /\ \E key \in Keys(keyword_dict) :
          \E i, j \in 1..Len(Get(keyword_dict, key)) :
              /\ Get(keyword_dict, key)[i].rank = Get(keyword_dict, key)[j].rank
              /\ Get(keyword_dict, key)[i].rank # None
              /\ Get(keyword_dict, key)[i].emoji # Get(keyword_dict, key)[j].emoji

\* C6: with num_emojis = n set, no entry of the table, under any key, plural
\* keys added by linking included, is of an emoji whose rank is absent or
\* above n.
C6_RankCapHolds ==
    Truthy(num_emojis) =>
        \A key \in Keys(keyword_dict) :
            \A i \in 1..Len(Get(keyword_dict, key)) :
                LET c == Get(keyword_dict, key)[i].emoji
                IN  /\ c \in DOMAIN popularity_dict
                    /\ popularity_dict[c] <= num_emojis

\* The character is annotated with a phrase that becomes a keyword.
HasKeyword(c) ==
    \E f \in 1..Len(cldr_files) : \E i \in 1..Len(cldr_files[f]) :
        /\ cldr_files[f][i].char = c
        /\ \E j \in 1..Len(cldr_files[f][i].default) :
              LET k == Lower(cldr_files[f][i].default[j])
              IN  IsSingleWord(k) /\ k \notin { Lower(w) : w \in GivenIgnore }

\* C6's case: a returned table with a linked plural, under a cap that shut
\* out an unranked emoji and one ranked above it, both otherwise kept.
C6_Witness ==
    /\ Returned
    /\ Truthy(num_emojis)
    /\ Keys(keyword_dict) \ Keys(TableFromAnnotations) # {}
    /\ \E c \in {"e2", "e3"} : HasKeyword(c) /\ popularity_dict[c] > num_emojis
    /\ \E c \in {"e4", "m1"} : HasKeyword(c)

-----------------------------------------------------------------------------
\* The filters a character must pass, as the claim lists them.
PassesEveryFilter(c) ==
    /\ c \in EMOJI_DATA
    /\ c \notin emoji_codes_to_ignore
    /\ ~(c \in ModifierBase /\ CharLen(c) > 1)
    /\ c \in FullyQualified
    /\ Truthy(num_emojis) =>
          (c \in DOMAIN popularity_dict /\ popularity_dict[c] <= num_emojis)

\* The places (file, row, phrase) where c is annotated with a default phrase
\* whose lower-cased form is k.
Annotated(c, k) ==
    UNION { UNION { { <<f, i, j>> : j \in { j \in 1..Len(cldr_files[f][i].default) :
                                          /\ cldr_files[f][i].char = c
                                          /\ Lower(cldr_files[f][i].default[j]) = k } }
                    : i \in 1..Len(cldr_files[f]) }
            : f \in 1..Len(cldr_files) }

\* k may become a keyword: one word, and not ignored.
Keepable(k) ==
    IsSingleWord(k) /\ k \notin { Lower(w) : w \in GivenIgnore }

\* The entries of c under k
EntriesOf(kd, k, c) ==
    IF HasKey(kd, k)
    THEN { i \in 1..Len(Get(kd, k)) : Get(kd, k)[i].emoji = c }
    ELSE {}

AnnotationPhrases ==
    UNION { UNION { { Lower(cldr_files[f][i].default[j]) :
                        j \in 1..Len(cldr_files[f][i].default) }
                    : i \in 1..Len(cldr_files[f]) }
            : f \in 1..Len(cldr_files) }

\* C7: a character contributes entries exactly when it passes every filter.
\* When both files are scanned, a character that fails one has no entry under
\* any keyword, and one that passes all has one entry under a keyword for each
\* of its default phrases that lower-cases to it, the keyword being a single
\* word that is not ignored; each entry carries the character's base status
\* and rank.  No character that fails a filter is in a list later either.
C7_EntriesIffAllFiltersPass ==
    /\ pc = "link" =>
          /\ \A c \in CldrChars : \A k \in Keys(keyword_dict) \cup AnnotationPhrases :
                Cardinality(EntriesOf(keyword_dict, k, c)) =
                    IF PassesEveryFilter(c) /\ Keepable(k)
                    THEN Cardinality(Annotated(c, k))
                    ELSE 0
          /\ \A k \in Keys(keyword_dict) : \A i \in 1..Len(Get(keyword_dict, k)) :
                LET e == Get(keyword_dict, k)[i]
                IN  /\ e.is_base = (e.emoji \in ModifierBase)
                    /\ e.rank = PopularityGet(e.emoji)
    /\ \A k \in Keys(keyword_dict) : \A i \in 1..Len(Get(keyword_dict, k)) :
          PassesEveryFilter(Get(keyword_dict, k)[i].emoji)

\* C7's case: both files scanned under an ignore list; a modifier base of one
\* code point or another passing character has entries, one of its phrases
\* made no keyword, and a character annotated with a keepable phrase failed a
\* filter.
C7_Witness ==
    /\ pc = "link"
    /\ GivenIgnore # {}
    /\ \E c \in CldrChars :
          /\ PassesEveryFilter(c)
          /\ \E k \in Keys(keyword_dict) : EntriesOf(keyword_dict, k, c) # {}
          /\ \E k \in AnnotationPhrases : Annotated(c, k) # {} /\ ~Keepable(k)
    /\ \E c \in CldrChars : ~PassesEveryFilter(c) /\ HasKeyword(c)

-----------------------------------------------------------------------------
\* The table has no row whose second column, trimmed, is the capitalized
\* language name.
NoLanguageRow(lines, lang) ==
    \A i \in 1..Len(lines) :
        Len(Split(lines[i])) >= 2 => Strip(Split(lines[i])[2]) # Capitalize(lang)

EveryLineHasPipe(lines) ==
    \A i \in 1..Len(lines) : \E j \in 1..Len(lines[i]) : lines[i][j] = "|"

====
